---- MODULE Spec2Model ----
(***************************************************************************)
(* Proximity graphs over a hierarchical clustering tree (clam-ratios).     *)
(*                                                                         *)
(* The module models                                                       *)
(*   - the candidate selectors  (abd-clam/src/core/graph/builder.rs and    *)
(*     Graph::from_tree of crates/abd-clam/src/chaoda/graph.rs),           *)
(*   - Edge and the edge detector (builder.rs, _graph.rs),                 *)
(*   - the reference Graph (abd-clam/src/core/graph/_graph.rs),            *)
(*   - the compact Graph and its Components (chaoda/graph.rs).             *)
(*   - the drain of the score queue (abd-clam/tests/test_scoring.rs).      *)
(*                                                                         *)
(* The tree itself (Cluster / OddBall) is an external collaborator: its    *)
(* primitives are modelled from section 6 of the specification.            *)
(***************************************************************************)
EXTENDS Integers, Sequences, FiniteSets, TLC

(***************************************************************************)
(* Bounds of the model.                                                    *)
(***************************************************************************)
\* largest number of clusters in a tree
MaxNodes == 5

\* largest number of clusters handed to a graph constructor
MaxClusters == 3

\* largest number of edges handed to Graph::new
MaxEdges == 2

VARIABLES
    parent,       \* the tree: parent[x] is the parent of cluster x, 0 for the root
    score,        \* the scoring function: score[x] is the score of cluster x
    root,         \* the cluster whose subtree is selected from
    min_depth,    \* from_tree's min_depth argument
    pc,           \* position of the running operation
    candidates,   \* the priority queue (the clusters it holds)
    cluster_set,  \* get_clusterset's result set
    clusters,     \* from_tree's Vec of selected clusters / from_clusters' input
    edges,        \* a HashSet of Edges (detect_edges' result, Graph::new's argument)
    graph,        \* the reference Graph: None or Some(Graph)
    outcome,      \* how the last call ended: a value, an Err or a panic
    unvisited,    \* find_component_clusters' pool of unvisited clusters
    components,   \* the connected components found so far (both views)
    radius,       \* radius[x]: the radius of cluster x
    center,       \* center[x]: the position of cluster x's center (on a line)
    other,        \* from_clusters' Component still to be partitioned
    cgraph,       \* the compact Graph: None or Some(Graph)
    tests,        \* tests[{a, b}]: how often the overlap of a and b was tested
    result        \* the last call of an accessor: its arguments and what it returned

inputs == <<parent, score, root, min_depth, radius, center>>

compVars == <<other, cgraph, tests>>

refVars == <<edges, graph, outcome, unvisited, components>>

vars == <<parent, score, root, min_depth, pc, candidates, cluster_set, clusters,
          edges, graph, outcome, unvisited, components,
          radius, center, other, cgraph, tests, result>>

(***************************************************************************)
(* Option: None is the empty sequence, Some(x) the sequence holding x.     *)
(***************************************************************************)
None == <<>>

Some(x) == <<x>>

\* the elements of a sequence
Range(s) == {s[i] : i \in 1 .. Len(s)}

(***************************************************************************)
(* Floating point scores: the naturals stand for comparable scores, NaN    *)
(* for the incomparable one.                                               *)
(***************************************************************************)
NaN == 0 - 1

ScoreValues == {NaN, 0, 1}

MinDepths == 0 .. 2

(***************************************************************************)
(* The tree (external; specification section 6).  Clusters are numbered    *)
(* 1..n in breadth-first order, 1 is the tree's root, every inner cluster  *)
(* is partitioned into at least two children.                              *)
(***************************************************************************)
Children(p, x) == {y \in DOMAIN p : p[y] = x}

IsTree(p) ==
    /\ p[1] = 0
    /\ \A i \in DOMAIN p : i > 1 => p[i] \in 1 .. (i - 1)
    /\ \A i \in DOMAIN p : i > 2 => p[i - 1] <= p[i]
    /\ \A x \in DOMAIN p : Cardinality(Children(p, x)) # 1

Trees == UNION {{p \in [1 .. n -> 0 .. (n - 1)] : IsTree(p)} : n \in 1 .. MaxNodes}

is_leaf(p, x) == Children(p, x) = {}

RECURSIVE depth(_, _)
depth(p, x) == IF p[x] = 0 THEN 0 ELSE 1 + depth(p, p[x])

\* a is a proper ancestor of b
RECURSIVE is_ancestor_of(_, _, _)
is_ancestor_of(p, a, b) ==
    /\ p[b] # 0
    /\ (p[b] = a \/ is_ancestor_of(p, a, p[b]))

is_descendant_of(p, a, b) == is_ancestor_of(p, b, a)

\* the cluster itself and all its descendants
subtree(p, r) == {r} \cup {x \in DOMAIN p : is_ancestor_of(p, r, x)}

\* number of points of a cluster: one per leaf below it
cardinality(p, x) ==
    Cardinality({y \in subtree(p, x) : is_leaf(p, y)})

RECURSIVE SumCardinality(_, _)
SumCardinality(p, S) ==
    IF S = {} THEN 0
    ELSE LET x == CHOOSE y \in S : TRUE
         IN  cardinality(p, x) + SumCardinality(p, S \ {x})

\* first index of a cluster's points: children split their parent's range in order
RECURSIVE offset(_, _)
offset(p, x) ==
    IF p[x] = 0 THEN 0
    ELSE offset(p, p[x])
            + SumCardinality(p, {y \in Children(p, p[x]) : y < x})

\* the total order of clusters: by depth, then by offset
ClusterLess(p, a, b) ==
    \/ depth(p, a) < depth(p, b)
    \/ depth(p, a) = depth(p, b) /\ offset(p, a) < offset(p, b)

(***************************************************************************)
(* Geometry (external; specification section 6): the clusters' centers lie *)
(* on a line, the metric is the distance between them.                     *)
(***************************************************************************)
Centers == 0 .. 1

Radii == 0 .. 1

\* c1.distance_to_other(data, c2)
Distance(a, b) ==
    IF center[a] >= center[b] THEN center[a] - center[b] ELSE center[b] - center[a]

\* the unordered pairs of distinct clusters
ClusterPairs == {u \in SUBSET (DOMAIN parent) : Cardinality(u) = 2}

\* no overlap test was made yet
NoTests == [u \in ClusterPairs |-> 0]

(***************************************************************************)
(* Score-driven selection, reference view (builder.rs).                    *)
(***************************************************************************)
\* Ord for ClusterWrapper: partial_cmp on the scores, Equal when incomparable
WrapperCmp(a, b) ==
    IF score[a] = NaN \/ score[b] = NaN THEN "Equal"
    ELSE IF score[a] < score[b] THEN "Less"
    ELSE IF score[a] > score[b] THEN "Greater"
    ELSE "Equal"

\* mutant: pop returns any element of the heap
HeapPop_Any(h) == h

\* BinaryHeap::pop under WrapperCmp: a greatest element, any of them on ties.
\* With an incomparable score in the heap the comparison is not transitive and
\* the heap's root may be any element.
HeapPop(h) ==
    IF \E x \in h : score[x] = NaN THEN h
    ELSE {x \in h : \A y \in h : WrapperCmp(y, x) # "Greater"}

score_clusters ==
    /\ pc = "start"
    /\ candidates' = subtree(parent, root)
    /\ pc' = "get_clusterset"
    /\ UNCHANGED <<inputs, result, compVars, cluster_set, clusters, refVars>>

\* mutant: the filter forgets the descendants of the selected cluster
FilterUnrelated_AncestorsOnly(h, best) ==
    {item \in h : ~is_ancestor_of(parent, item, best)}

\* the filter of one iteration of get_clusterset's loop
FilterUnrelated(h, best) ==
    {item \in h : /\ ~is_ancestor_of(parent, item, best)
                  /\ ~is_descendant_of(parent, item, best)}

get_clusterset ==
    /\ pc = "get_clusterset"
    /\ IF candidates # {}
       THEN \E best \in HeapPop(candidates) :
                /\ candidates' = FilterUnrelated(candidates \ {best}, best)
                /\ cluster_set' = cluster_set \cup {best}
                /\ pc' = pc
       ELSE /\ pc' = "get_clusterset_done"
            /\ UNCHANGED <<candidates, cluster_set>>
    /\ UNCHANGED <<inputs, result, compVars, clusters, refVars>>

(***************************************************************************)
(* Depth-cut selection (builder.rs).                                       *)
(***************************************************************************)
\* mutant: the cut is made at the depth of the root itself
DepthCut_Height(r) ==
    {c \in subtree(parent, r) : depth(parent, c) = depth(parent, r)}

\* the clusters select_clusters inserts: those at depth height / 2
DepthCut(r) ==
    LET height == depth(parent, r)
    IN  {c \in subtree(parent, r) : depth(parent, c) = height \div 2}

select_clusters ==
    /\ pc = "start"
    /\ cluster_set' = DepthCut(root)
    /\ pc' = "select_clusters_done"
    /\ UNCHANGED <<inputs, result, compVars, candidates, clusters, refVars>>

(***************************************************************************)
(* Score-driven selection, compact view (Graph::from_tree).                *)
(***************************************************************************)
\* OrderedFloat: NaN is equal to itself and greater than every other score
OrderedFloatLess(s, t) ==
    IF t = NaN THEN s # NaN
    ELSE IF s = NaN THEN FALSE
    ELSE s < t

\* the heap's key (score, Reverse(cluster)): a is below b
CandidateLess(a, b) ==
    \/ OrderedFloatLess(score[a], score[b])
    \/ score[a] = score[b] /\ ClusterLess(parent, b, a)

\* mutant: the eligibility filter forgets the leaves
Eligible_DepthOnly(c) == depth(parent, c) >= min_depth

\* from_tree's eligibility filter on the candidates
Eligible(c) == is_leaf(parent, c) \/ depth(parent, c) >= min_depth

from_tree_candidates ==
    /\ pc = "start"
    /\ candidates' = {c \in subtree(parent, root) : Eligible(c)}
    /\ clusters' = <<>>
    /\ pc' = "from_tree"
    /\ UNCHANGED <<inputs, result, compVars, cluster_set, refVars>>

\* candidates.retain(..) after c was selected
RetainUnrelated(h, c) ==
    {o \in h : ~(is_ancestor_of(parent, c, o) \/ is_descendant_of(parent, c, o))}

from_tree_select ==
    /\ pc = "from_tree"
    /\ candidates # {}
    /\ \E c \in candidates :
        /\ \A o \in candidates : ~CandidateLess(c, o)
        /\ clusters' = Append(clusters, c)
        /\ candidates' = RetainUnrelated(candidates \ {c}, c)
    /\ UNCHANGED <<inputs, result, compVars, pc, cluster_set, refVars>>

\* mutant: the selected clusters stay in the order of their selection
SortedByOffset_Keep(s) == {s}

\* sort_unstable_by_key(offset): any arrangement in non-decreasing offset order
SortedByOffset(s) ==
    {t \in [1 .. Len(s) -> {s[i] : i \in 1 .. Len(s)}] :
        /\ \A x \in {s[i] : i \in 1 .. Len(s)} :
              Cardinality({i \in 1 .. Len(s) : t[i] = x})
                = Cardinality({i \in 1 .. Len(s) : s[i] = x})
        /\ \A i \in 1 .. Len(s) - 1 : offset(parent, t[i]) <= offset(parent, t[i + 1])}

from_tree_sort ==
    /\ pc = "from_tree"
    /\ candidates = {}
    /\ \E t \in SortedByOffset(clusters) : clusters' = t
    /\ pc' = "from_clusters"
    /\ UNCHANGED <<inputs, result, compVars, candidates, cluster_set, refVars>>

(***************************************************************************)
(* Specification of the selectors: every tree, every scoring function,     *)
(* every min_depth; the scores outside the selected subtree do not matter  *)
(* and are fixed.                                                          *)
(***************************************************************************)
InitSelect ==
    /\ parent \in Trees
    /\ root \in DOMAIN parent
    /\ score \in [DOMAIN parent -> ScoreValues]
    /\ \A x \in DOMAIN parent : x \notin subtree(parent, root) => score[x] = 0
    /\ min_depth \in MinDepths
    /\ pc = "start"
    /\ candidates = {}
    /\ cluster_set = {}
    /\ clusters = <<>>
    /\ edges = {}
    /\ graph = None
    /\ outcome = "none"
    /\ unvisited = {}
    /\ components = <<>>
    /\ radius = [x \in DOMAIN parent |-> 0]
    /\ center = [x \in DOMAIN parent |-> 0]
    /\ other = None
    /\ cgraph = None
    /\ tests = NoTests
    /\ result = None

NextSelect ==
    \/ select_clusters
    \/ score_clusters
    \/ get_clusterset
    \/ from_tree_candidates
    \/ from_tree_select
    \/ from_tree_sort

SpecSelect == InitSelect /\ [][NextSelect]_vars

(***************************************************************************)
(* Draining the queue of score_clusters (tests/test_scoring.rs).           *)
(***************************************************************************)
\* a score below zero
Negative == 0 - 2

\* the scores a scoring function may return for a cluster
DrainScores == {NaN, Negative, 0, 1}

\* priority_queue.pop(): the cluster leaves the queue, its score is recorded
priority_queue_pop ==
    /\ pc \in {"get_clusterset", "drain"}
    /\ candidates # {}
    /\ \E best \in HeapPop(candidates) :
          /\ candidates' = candidates \ {best}
          /\ result' = IF result = None
                       THEN [op |-> "drain", nodes |-> <<best>>, value |-> <<score[best]>>]
                       ELSE [result EXCEPT !.nodes = Append(@, best),
                                           !.value = Append(@, score[best])]
    /\ pc' = "drain"
    /\ UNCHANGED <<inputs, compVars, cluster_set, clusters, refVars>>

\* the trees whose queues are drained
DrainTrees == {p \in Trees : Len(p) <= 4}

\* every small tree, every subtree, every scoring function
InitScore ==
    /\ parent \in DrainTrees
    /\ root \in DOMAIN parent
    /\ score \in [DOMAIN parent -> DrainScores]
    /\ \A x \in DOMAIN parent : x \notin subtree(parent, root) => score[x] = 0
    /\ min_depth = 0
    /\ pc = "start"
    /\ candidates = {}
    /\ cluster_set = {}
    /\ clusters = <<>>
    /\ edges = {}
    /\ graph = None
    /\ outcome = "none"
    /\ unvisited = {}
    /\ components = <<>>
    /\ radius = [x \in DOMAIN parent |-> 0]
    /\ center = [x \in DOMAIN parent |-> 0]
    /\ other = None
    /\ cgraph = None
    /\ tests = NoTests
    /\ result = None

NextScore ==
    \/ score_clusters
    \/ priority_queue_pop

SpecScore == InitScore /\ [][NextScore]_vars

(***************************************************************************)
(* Properties of the selectors.                                            *)
(***************************************************************************)
Antichain(S) ==
    \A i \in S : \A j \in S :
        i # j => ~is_ancestor_of(parent, i, j) /\ ~is_descendant_of(parent, i, j)

Covered(x, S) ==
    \/ x \in S
    \/ \E j \in S : is_ancestor_of(parent, x, j)
    \/ \E j \in S : is_descendant_of(parent, x, j)

\* C1: the set returned by get_clusterset, and the list selected by
\* Graph::from_tree, hold no two clusters of which one is an ancestor or a
\* descendant of the other (at every step of the loop, hence at its end).
C1_Antichain ==
    /\ pc \in {"get_clusterset", "get_clusterset_done"} => Antichain(cluster_set)
    /\ pc \in {"from_tree", "from_clusters"} => Antichain(Range(clusters))

\* a selection that had to drop related clusters and kept at least three
C1_Witness ==
    /\ pc = "get_clusterset_done"
    /\ Cardinality(cluster_set) >= 3
    /\ Cardinality(subtree(parent, root)) > Cardinality(cluster_set)

\* C2: once the selection is complete, every cluster of the source subtree is
\* selected, or an ancestor of a selected cluster, or a descendant of one.
C2_Coverage ==
    /\ pc = "get_clusterset_done" =>
          \A x \in subtree(parent, root) : Covered(x, cluster_set)
    /\ pc = "from_clusters" =>
          \A x \in subtree(parent, root) : Covered(x, Range(clusters))

\* from_tree finished on a subtree with an ineligible inner cluster that is
\* covered only through its descendants
C2_Witness ==
    /\ pc = "from_clusters"
    /\ \E x \in subtree(parent, root) :
          /\ ~Eligible(x)
          /\ \A j \in Range(clusters) : ~is_descendant_of(parent, x, j)
          /\ \E j \in Range(clusters) : is_ancestor_of(parent, x, j)
    /\ Len(clusters) >= 2

(***************************************************************************)
(* Edge (_graph.rs).                                                       *)
(***************************************************************************)
\* distances an Edge may carry
Distances == 0 .. 1

\* Display for Cluster: its name, the identity key (offset, cardinality)
Name(c) == <<offset(parent, c), cardinality(parent, c)>>

\* mutant: the endpoints are stored as given
EdgeNew_AsGiven(left, right, distance) ==
    [left |-> left, right |-> right, distance |-> distance]

\* Edge::new: the smaller cluster is stored as left
EdgeNew(left, right, distance) ==
    IF ClusterLess(parent, left, right)
    THEN [left |-> left, right |-> right, distance |-> distance]
    ELSE [left |-> right, right |-> left, distance |-> distance]

\* PartialEq for Edge
EdgeEq(e, f) == (e.left = f.left) /\ (e.right = f.right)

\* Hash for Edge: the hash of its Display string "{left} -- {right}"
EdgeHash(e) == <<Name(e.left), "--", Name(e.right)>>

\* HashSet::insert: an element equal to one of the set is not inserted
HashSetInsert(S, e) == IF \E f \in S : EdgeEq(f, e) THEN S ELSE S \cup {e}

\* a caller builds an Edge and puts it into the edge set it will hand to Graph::new
edge_new ==
    /\ pc = "edges"
    /\ Cardinality(edges) < MaxEdges
    /\ \E a \in DOMAIN parent, b \in DOMAIN parent, d \in Distances :
          edges' = HashSetInsert(edges, EdgeNew(a, b, d))
    /\ UNCHANGED <<inputs, result, compVars, pc, candidates, cluster_set, clusters,
                   graph, outcome, unvisited, components>>

(***************************************************************************)
(* The reference Graph (_graph.rs).                                        *)
(***************************************************************************)
\* the orders in which a HashSet may be iterated
Orders(S) ==
    {f \in [1 .. Cardinality(S) -> S] : \A i, j \in DOMAIN f : f[i] = f[j] => i = j}

\* usize::MAX, the start value of the minimum depth (the model's integers are
\* 32 bits wide; no depth comes near)
USIZE_MAX == 2147483647

\* the folds of Graph::new over the clusters' depths, from (usize::MAX, 0)
MinDepthFold(S) == IF S = {} THEN USIZE_MAX ELSE CHOOSE x \in S : \A y \in S : x <= y

MaxDepthFold(S) == IF S = {} THEN 0 ELSE CHOOSE x \in S : \A y \in S : y <= x

\* mutant: the population counts the clusters
Population_Count(cs) == Cardinality(cs)

\* the fold of Graph::new over the clusters: the sum of their cardinalities
Population(cs) == SumCardinality(parent, cs)

\* mutant: only the left endpoint learns about its neighbor
AdjacencyMap_OneWay(cs, es) ==
    [c \in cs |-> {e.right : e \in {f \in es : f.left = c}}]

\* every cluster starts with no neighbor, every edge inserts both directions
AdjacencyMap(cs, es) ==
    [c \in cs |-> {e.right : e \in {f \in es : f.left = c}}
                    \cup {e.left : e \in {f \in es : f.right = c}}]

\* mutant: an empty cluster set is accepted
GraphNewOutcome_NoAssert(cs, es) ==
    IF \E e \in es : e.left \notin cs \/ e.right \notin cs THEN "panic_unreachable"
    ELSE "ok"

\* how Graph::new ends: the assertion on the cluster set, the lookups of the
\* edges' endpoints in the adjacency map
GraphNewOutcome(cs, es) ==
    IF cs = {} THEN "panic_assert"
    ELSE IF \E e \in es : e.left \notin cs \/ e.right \notin cs THEN "panic_unreachable"
    ELSE "ok"

GraphNew(cs, es, ordered) ==
    [clusters |-> cs,
     edges |-> es,
     adjacency_map |-> AdjacencyMap(cs, es),
     population |-> Population(cs),
     min_depth |-> MinDepthFold({depth(parent, c) : c \in cs}),
     max_depth |-> MaxDepthFold({depth(parent, c) : c \in cs}),
     ordered_clusters |-> ordered,
     distance_matrix |-> None,
     adjacency_matrix |-> None,
     frontier_sizes |-> None]

graph_new ==
    /\ pc = "edges"
    /\ outcome' = GraphNewOutcome(cluster_set, edges)
    /\ IF outcome' = "ok"
       THEN /\ \E ordered \in Orders(cluster_set) :
                  graph' = Some(GraphNew(cluster_set, edges, ordered))
            /\ pc' = "graph"
       ELSE /\ graph' = None
            /\ pc' = "panicked"
    /\ UNCHANGED <<inputs, result, compVars, candidates, cluster_set, clusters, edges, unvisited, components>>

vertex_cardinality(g) == Cardinality(g.clusters)

edge_cardinality(g) == Cardinality(g.edges)

unchecked_neighbors_of(g, c) == g.adjacency_map[c]

\* mutant: the empty frontier that ends the loop is not recorded
RECURSIVE TraverseLoop_NoLast(_, _, _, _)
TraverseLoop_NoLast(g, visited, frontier, sizes) ==
    IF frontier = {} THEN <<visited, sizes>>
    ELSE LET seen == visited \cup frontier
             next == {n \in UNION {g.adjacency_map[c] : c \in frontier} : n \notin seen}
         IN  TraverseLoop_NoLast(g, seen, next,
                                 IF next = {} THEN sizes ELSE Append(sizes, Cardinality(next)))

\* the loop of unchecked_traverse
RECURSIVE TraverseLoop(_, _, _, _)
TraverseLoop(g, visited, frontier, sizes) ==
    IF frontier = {} THEN <<visited, sizes>>
    ELSE LET seen == visited \cup frontier
             next == {n \in UNION {unchecked_neighbors_of(g, c) : c \in frontier} :
                         ~(n \in seen \/ n \in frontier)}
         IN  TraverseLoop(g, seen, next, Append(sizes, Cardinality(next)))

\* mutant: the traversal stops after the first step
unchecked_traverse_OneStep(g, start) ==
    <<{start} \cup unchecked_neighbors_of(g, start), <<>>>>

\* the clusters visited from start and the frontier sizes at each step
unchecked_traverse(g, start) == TraverseLoop(g, {}, {start}, <<>>)

find_component_clusters_begin ==
    /\ pc = "graph"
    /\ unvisited' = graph[1].clusters
    /\ components' = <<>>
    /\ pc' = "find_component_clusters"
    /\ UNCHANGED <<inputs, result, compVars, candidates, cluster_set, clusters, edges, graph, outcome>>

find_component_clusters ==
    /\ pc = "find_component_clusters"
    /\ IF unvisited # {}
       THEN \E start \in unvisited :
               LET visited == unchecked_traverse(graph[1], start)[1]
               IN  /\ unvisited' = {c \in unvisited : c \notin visited}
                   /\ components' = Append(components, visited)
                   /\ pc' = pc
       ELSE /\ pc' = "find_component_clusters_done"
            /\ UNCHANGED <<unvisited, components>>
    /\ UNCHANGED <<inputs, result, compVars, candidates, cluster_set, clusters, edges, graph, outcome>>

(***************************************************************************)
(* The checked entry points of the reference Graph (_graph.rs).  A Result  *)
(* is <<"Ok", value>> or <<"Err", message>>; a call that reaches           *)
(* unreachable! ends as <<"panic_unreachable">>.                           *)
(***************************************************************************)
\* mutant: every cluster passes the membership check
assert_contains_Always(g, c) == <<"Ok">>

\* Graph::assert_contains
assert_contains(g, c) ==
    IF c \in g.clusters THEN <<"Ok">>
    ELSE <<"Err", <<"Cluster ", Name(c), " is not in this graph.">>>>

\* Graph::unchecked_vertex_degree
unchecked_vertex_degree(g, c) == Cardinality(unchecked_neighbors_of(g, c))

\* how far a checked entry point gets: assert_contains(c)? returns the Err,
\* and the lookup of c in the adjacency map by the unchecked core must succeed
Checked(g, c) ==
    IF assert_contains(g, c)[1] = "Err" THEN assert_contains(g, c)
    ELSE IF c \notin DOMAIN g.adjacency_map THEN <<"panic_unreachable">>
    ELSE <<"Ok">>

\* Graph::vertex_degree
vertex_degree(g, c) ==
    IF Checked(g, c) = <<"Ok">> THEN <<"Ok", unchecked_vertex_degree(g, c)>>
    ELSE Checked(g, c)

\* Graph::neighbors_of
neighbors_of(g, c) ==
    IF Checked(g, c) = <<"Ok">> THEN <<"Ok", unchecked_neighbors_of(g, c)>>
    ELSE Checked(g, c)

\* mutant: the traversal returns the start and its neighbors
traverse_Neighbors(g, start) ==
    IF start \in g.clusters
    THEN <<"Ok", <<{start} \cup unchecked_neighbors_of(g, start),
                   unchecked_traverse(g, start)[2]>>>>
    ELSE assert_contains(g, start)

\* Graph::traverse
traverse(g, start) ==
    IF Checked(g, start) = <<"Ok">> THEN <<"Ok", unchecked_traverse(g, start)>>
    ELSE Checked(g, start)

\* a caller asks a checked entry point about a cluster of the tree, after
\* find_component_clusters has returned
call_traverse ==
    /\ pc = "find_component_clusters_done"
    /\ \E c \in DOMAIN parent :
          result' = [op |-> "traverse", arg |-> c, value |-> traverse(graph[1], c)]
    /\ pc' = "returned"
    /\ UNCHANGED <<inputs, compVars, refVars, candidates, cluster_set, clusters>>

call_vertex_degree ==
    /\ pc = "find_component_clusters_done"
    /\ \E c \in DOMAIN parent :
          result' = [op |-> "vertex_degree", arg |-> c, value |-> vertex_degree(graph[1], c)]
    /\ pc' = "returned"
    /\ UNCHANGED <<inputs, compVars, refVars, candidates, cluster_set, clusters>>

call_neighbors_of ==
    /\ pc = "find_component_clusters_done"
    /\ \E c \in DOMAIN parent :
          result' = [op |-> "neighbors_of", arg |-> c, value |-> neighbors_of(graph[1], c)]
    /\ pc' = "returned"
    /\ UNCHANGED <<inputs, compVars, refVars, candidates, cluster_set, clusters>>

(***************************************************************************)
(* The builder steps of the reference Graph and its eccentricities         *)
(* (_graph.rs).  Rows and columns of a matrix count from 1 here, from 0 in *)
(* the source.                                                             *)
(***************************************************************************)
\* indices: the position of a cluster in ordered_clusters
IndexOf(g, c) == CHOOSE i \in DOMAIN g.ordered_clusters : g.ordered_clusters[i] = c

\* the distances the edges write at row i, column j: an edge writes at
\* [left][right] and at [right][left]
WrittenAt(g, i, j) ==
    {e.distance : e \in {f \in g.edges :
        \/ IndexOf(g, f.left) = i /\ IndexOf(g, f.right) = j
        \/ IndexOf(g, f.left) = j /\ IndexOf(g, f.right) = i}}

\* Graph::compute_distance_matrix: zeros, then every edge writes its distance;
\* the edge set holds one Edge per pair of endpoints, so no entry is written
\* by two edges
compute_distance_matrix(g) ==
    LET n == vertex_cardinality(g)
    IN  [i \in 1 .. n |-> [j \in 1 .. n |->
            IF WrittenAt(g, i, j) = {} THEN 0
            ELSE CHOOSE d \in WrittenAt(g, i, j) : TRUE]]

\* Graph::with_distance_matrix
with_distance_matrix ==
    /\ pc = "graph"
    /\ graph' = Some([graph[1] EXCEPT
                        !.distance_matrix = Some(compute_distance_matrix(graph[1]))])
    /\ UNCHANGED <<inputs, result, compVars, pc, candidates, cluster_set, clusters,
                   edges, outcome, unvisited, components>>

\* mutant: a Graph without a distance matrix gets an empty adjacency matrix
AdjacencyMatrixOutcome_Lenient(g) == "ok"

\* how with_adjacency_matrix ends: the distance matrix must be there
AdjacencyMatrixOutcome(g) ==
    IF g.distance_matrix = None THEN "panic_unreachable" ELSE "ok"

\* the matrix with_adjacency_matrix derives: v != U::zero()
AdjacencyMatrix(g) ==
    IF g.distance_matrix = None THEN <<>>
    ELSE LET dm == g.distance_matrix[1]
         IN  [i \in DOMAIN dm |-> [j \in DOMAIN dm[i] |-> dm[i][j] # 0]]

\* Graph::with_adjacency_matrix
with_adjacency_matrix ==
    /\ pc = "graph"
    /\ outcome' = AdjacencyMatrixOutcome(graph[1])
    /\ IF outcome' = "ok"
       THEN /\ graph' = Some([graph[1] EXCEPT
                                !.adjacency_matrix = Some(AdjacencyMatrix(graph[1]))])
            /\ pc' = pc
       ELSE /\ pc' = "panicked"
            /\ UNCHANGED graph
    /\ UNCHANGED <<inputs, result, compVars, candidates, cluster_set, clusters,
                   edges, unvisited, components>>

\* Graph::with_eccentricities: the frontier sizes of the traversal from each cluster
with_eccentricities ==
    /\ pc = "graph"
    /\ graph' = Some([graph[1] EXCEPT
                        !.frontier_sizes =
                            Some([c \in graph[1].clusters |->
                                     unchecked_traverse(graph[1], c)[2]])])
    /\ UNCHANGED <<inputs, result, compVars, pc, candidates, cluster_set, clusters,
                   edges, outcome, unvisited, components>>

\* Graph::unchecked_frontier_sizes: both lookups must succeed
unchecked_frontier_sizes(g, c) ==
    IF g.frontier_sizes = None THEN <<"panic_unreachable">>
    ELSE IF c \notin DOMAIN g.frontier_sizes[1] THEN <<"panic_unreachable">>
    ELSE <<"Ok", g.frontier_sizes[1][c]>>

\* Graph::unchecked_eccentricity
unchecked_eccentricity(g, c) ==
    IF unchecked_frontier_sizes(g, c)[1] = "Ok"
    THEN <<"Ok", Len(unchecked_frontier_sizes(g, c)[2])>>
    ELSE unchecked_frontier_sizes(g, c)

\* Graph::eccentricity
eccentricity(g, c) ==
    IF assert_contains(g, c)[1] = "Err" THEN assert_contains(g, c)
    ELSE unchecked_eccentricity(g, c)

\* Graph::diameter: the largest unchecked_eccentricity of a cluster
diameter(g) ==
    IF \E c \in g.clusters : unchecked_eccentricity(g, c)[1] # "Ok"
    THEN <<"panic_unreachable">>
    ELSE <<"Ok", MaxDepthFold({unchecked_eccentricity(g, c)[2] : c \in g.clusters})>>

call_eccentricity ==
    /\ pc = "graph"
    /\ \E c \in DOMAIN parent :
          result' = [op |-> "eccentricity", arg |-> c, value |-> eccentricity(graph[1], c)]
    /\ pc' = IF result'.value[1] = "panic_unreachable" THEN "panicked" ELSE "returned"
    /\ UNCHANGED <<inputs, compVars, refVars, candidates, cluster_set, clusters>>

\* Graph::frontier_sizes
frontier_sizes(g, c) ==
    IF assert_contains(g, c)[1] = "Err" THEN assert_contains(g, c)
    ELSE unchecked_frontier_sizes(g, c)

call_frontier_sizes ==
    /\ pc = "graph"
    /\ \E c \in DOMAIN parent :
          result' = [op |-> "frontier_sizes", arg |-> c, value |-> frontier_sizes(graph[1], c)]
    /\ pc' = IF result'.value[1] = "panic_unreachable" THEN "panicked" ELSE "returned"
    /\ UNCHANGED <<inputs, compVars, refVars, candidates, cluster_set, clusters>>

call_diameter ==
    /\ pc = "graph"
    /\ result' = [op |-> "diameter", arg |-> None, value |-> diameter(graph[1])]
    /\ pc' = IF result'.value[1] = "panic_unreachable" THEN "panicked" ELSE "returned"
    /\ UNCHANGED <<inputs, compVars, refVars, candidates, cluster_set, clusters>>

(***************************************************************************)
(* Specification of the reference Graph: every cluster set of a small      *)
(* tree, every edge set a caller can build with Edge::new.                 *)
(***************************************************************************)
\* the trees the graphs are built over
GraphTrees == {p \in Trees : Len(p) <= 4}

InitRef ==
    /\ parent \in GraphTrees
    /\ root = 1
    /\ score = [x \in DOMAIN parent |-> 0]
    /\ min_depth = 0
    /\ pc = "edges"
    /\ candidates = {}
    /\ cluster_set \in {cs \in SUBSET (DOMAIN parent) : Cardinality(cs) <= MaxClusters}
    /\ clusters = <<>>
    /\ edges = {}
    /\ graph = None
    /\ outcome = "none"
    /\ unvisited = {}
    /\ components = <<>>
    /\ radius = [x \in DOMAIN parent |-> 0]
    /\ center = [x \in DOMAIN parent |-> 0]
    /\ other = None
    /\ cgraph = None
    /\ tests = NoTests
    /\ result = None

NextRef ==
    \/ edge_new
    \/ graph_new
    \/ find_component_clusters_begin
    \/ find_component_clusters
    \/ call_traverse
    \/ call_vertex_degree
    \/ call_neighbors_of

SpecRef == InitRef /\ [][NextRef]_vars

(***************************************************************************)
(* Specification of the builder steps: the same Graphs, then the matrices  *)
(* and the eccentricities in any order.                                    *)
(***************************************************************************)
NextMatrix ==
    \/ edge_new
    \/ graph_new
    \/ with_distance_matrix
    \/ with_adjacency_matrix
    \/ with_eccentricities
    \/ call_eccentricity
    \/ call_frontier_sizes
    \/ call_diameter

SpecMatrix == InitRef /\ [][NextMatrix]_vars

(***************************************************************************)
(* Properties of Edge and of the reference Graph.                          *)
(***************************************************************************)
Joins(e, a, b) == (e.left = a /\ e.right = b) \/ (e.left = b /\ e.right = a)

\* C6: Edge::new(a, b, d1) and Edge::new(b, a, d2) store left <= right, are
\* equal and hash alike, whatever the distances; an edge set built with
\* Edge::new never holds two edges over one unordered pair of clusters.
\* (The tree never changes: the first conjunct is evaluated for each tree
\* while the edge set is still empty.)
C6_EdgeIdentity ==
    /\ edges = {} =>
          \A a \in DOMAIN parent, b \in DOMAIN parent, d1 \in Distances, d2 \in Distances :
              LET e1 == EdgeNew(a, b, d1)
                  e2 == EdgeNew(b, a, d2)
              IN  /\ ~ClusterLess(parent, e1.right, e1.left)
                  /\ EdgeEq(e1, e2)
                  /\ EdgeHash(e1) = EdgeHash(e2)
    /\ \A e \in edges : ~ClusterLess(parent, e.right, e.left)
    /\ \A e \in edges, f \in edges :
          {e.left, e.right} = {f.left, f.right} => e = f

\* an edge set with two edges, one of them between clusters of the same depth
C6_Witness ==
    /\ Cardinality(edges) = 2
    /\ \E e \in edges :
          /\ e.left # e.right
          /\ depth(parent, e.left) = depth(parent, e.right)

\* C7: Graph::new fails on its assertion when the cluster set is empty and
\* returns a Graph when it is not empty and every edge has both ends in it.
C7_GraphNew ==
    outcome # "none" =>
        /\ cluster_set = {} => outcome = "panic_assert" /\ graph = None
        /\ (/\ cluster_set # {}
            /\ \A e \in edges : e.left \in cluster_set /\ e.right \in cluster_set)
              => outcome = "ok" /\ graph # None

\* Graph::new was called with no clusters and some edges
C7_Witness ==
    /\ outcome = "panic_assert"
    /\ cluster_set = {}
    /\ edges # {}

\* C8: the Graph holds exactly the clusters and edges it was built from, and
\* its population is the sum of its clusters' cardinalities (the number of
\* pairs of a cluster and one of its points).
C8_Counts ==
    pc = "graph" =>
        LET g == graph[1]
        IN  /\ g.clusters = cluster_set
            /\ g.edges = edges
            /\ vertex_cardinality(g) = Cardinality(cluster_set)
            /\ edge_cardinality(g) = Cardinality(edges)
            /\ g.population =
                  Cardinality({<<c, y>> \in cluster_set \X DOMAIN parent :
                                  y \in subtree(parent, c) /\ is_leaf(parent, y)})

\* a Graph of three clusters, one of them with several points, and two edges
C8_Witness ==
    /\ pc = "graph"
    /\ Cardinality(graph[1].clusters) = 3
    /\ Cardinality(graph[1].edges) = 2
    /\ graph[1].population > 3

\* C9: the adjacency map has one key per cluster, and b is a neighbor of a
\* exactly when an edge joins a and b; so the map is symmetric.
C9_Adjacency ==
    pc = "graph" =>
        LET adj == graph[1].adjacency_map
        IN  /\ DOMAIN adj = cluster_set
            /\ \A a \in cluster_set, b \in DOMAIN parent :
                  (b \in adj[a]) <=> (\E e \in edges : Joins(e, a, b))
            /\ \A a \in cluster_set, b \in cluster_set :
                  (b \in adj[a]) <=> (a \in adj[b])

\* a Graph with an edge between two clusters and a circular edge
C9_Witness ==
    /\ pc = "graph"
    /\ \E e \in edges : e.left # e.right
    /\ \E e \in edges : e.left = e.right
    /\ \E a \in cluster_set : graph[1].adjacency_map[a] = {}

\* C10: the components returned by find_component_clusters are non-empty and
\* pairwise disjoint, and together they hold every cluster of the Graph.
C10_Components ==
    pc = "find_component_clusters_done" =>
        /\ \A i \in DOMAIN components : components[i] # {}
        /\ \A i \in DOMAIN components, j \in DOMAIN components :
              i # j => components[i] \cap components[j] = {}
        /\ UNION {components[i] : i \in DOMAIN components} = graph[1].clusters
        /\ \A c \in graph[1].clusters :
              Cardinality({i \in DOMAIN components : c \in components[i]}) = 1

\* two components, one of them with two clusters
C10_Witness ==
    /\ pc = "find_component_clusters_done"
    /\ Len(components) = 2
    /\ \E i \in DOMAIN components : Cardinality(components[i]) = 2

\* the clusters within k hops of n in the adjacency map of g
RECURSIVE Within(_, _, _)
Within(g, n, k) ==
    IF k = 0 THEN {n}
    ELSE LET W == Within(g, n, k - 1)
         IN  W \cup UNION {g.adjacency_map[c] : c \in W}

\* the largest hop distance from n to a cluster of its component
HopEccentricity(g, n) ==
    CHOOSE k \in 0 .. Cardinality(g.clusters) :
        /\ Within(g, n, k + 1) = Within(g, n, k)
        /\ \A m \in 0 .. (k - 1) : Within(g, n, m + 1) # Within(g, n, m)

\* a checked call of op has returned
Returned(op) == pc = "returned" /\ result.op = op

\* C11: for every component K of find_component_clusters and every n in K,
\* traverse(n) returns K as its visited set, and the neighbors of n in the
\* adjacency map are members of K.
C11_TraverseComponent ==
    /\ pc \in {"find_component_clusters_done", "returned"} =>
          \A i \in DOMAIN components : \A n \in components[i] :
              graph[1].adjacency_map[n] \subseteq components[i]
    /\ Returned("traverse") =>
          \A i \in DOMAIN components :
              result.arg \in components[i] =>
                  /\ result.value[1] = "Ok"
                  /\ result.value[2][1] = components[i]
                  /\ Cardinality(result.value[2][1]) = Cardinality(components[i])

\* traverse from an end of a path of three clusters, next to a lone cluster
C11_Witness ==
    /\ Returned("traverse")
    /\ Len(components) = 1
    /\ Cardinality(components[1]) = 3
    /\ result.arg \in components[1]
    /\ Cardinality(graph[1].adjacency_map[result.arg]) = 1
    /\ \A e \in edges : e.left # e.right

CoreOf(op, g, c) ==
    CASE op = "traverse" -> unchecked_traverse(g, c)
      [] op = "vertex_degree" -> unchecked_vertex_degree(g, c)
      [] op = "neighbors_of" -> unchecked_neighbors_of(g, c)

\* C13: traverse, vertex_degree and neighbors_of return an Err that names the
\* cluster when it is not in the Graph, and Ok of their unchecked counterpart's
\* result when it is; they never panic.
C13_CheckedEntryPoints ==
    pc = "returned" =>
        LET g == graph[1]
            c == result.arg
        IN  /\ result.op \in {"traverse", "vertex_degree", "neighbors_of"}
            /\ c \notin g.clusters =>
                  /\ result.value[1] = "Err"
                  /\ result.value[2] = <<"Cluster ", Name(c), " is not in this graph.">>
            /\ c \in g.clusters =>
                  result.value = <<"Ok", CoreOf(result.op, g, c)>>

\* neighbors_of a cluster that is not in a Graph with an edge
C13_Witness ==
    /\ Returned("neighbors_of")
    /\ result.arg \notin graph[1].clusters
    /\ result.value[1] = "Err"
    /\ edges # {}

\* the largest of a non-empty set of numbers
Largest(S) == CHOOSE x \in S : \A y \in S : y <= x

\* C14: eccentricity(node) is the largest hop distance from node to a cluster
\* of its component, 0 for an isolated cluster, and diameter() is the largest
\* eccentricity of a cluster.
C14_Eccentricity ==
    /\ (Returned("eccentricity") /\ result.value[1] = "Ok") =>
          result.value[2] = HopEccentricity(graph[1], result.arg)
    /\ Returned("diameter") =>
          result.value[2] = Largest({HopEccentricity(graph[1], c) : c \in graph[1].clusters})

\* the adjacency matrix am says where the distance matrix dm is not zero
NonZeroOf(am, dm) ==
    /\ DOMAIN am = DOMAIN dm
    /\ \A i \in DOMAIN dm :
          /\ DOMAIN am[i] = DOMAIN dm[i]
          /\ \A j \in DOMAIN dm[i] : am[i][j] <=> (dm[i][j] # 0)

\* C15: a call of with_adjacency_matrix aborts when the Graph has no distance
\* matrix, and otherwise returns the Graph with an adjacency matrix that is
\* true exactly where the distance matrix is not zero.
C15_MatrixOrder ==
    [][with_adjacency_matrix =>
          IF graph[1].distance_matrix = None
          THEN pc' = "panicked" /\ graph' = graph
          ELSE /\ pc' = "graph"
               /\ graph'[1].adjacency_matrix # None
               /\ NonZeroOf(graph'[1].adjacency_matrix[1], graph[1].distance_matrix[1])
               /\ graph'[1].distance_matrix = graph[1].distance_matrix]_vars

\* a Graph of three clusters with both matrices: an edge of distance 1, a pair
\* with no edge
C15_Witness ==
    /\ pc = "graph"
    /\ Cardinality(graph[1].clusters) = 3
    /\ graph[1].distance_matrix # None
    /\ graph[1].adjacency_matrix # None
    /\ \E i \in 1 .. 3, j \in 1 .. 3 : i # j /\ graph[1].adjacency_matrix[1][i][j]
    /\ \E i \in 1 .. 3, j \in 1 .. 3 : i # j /\ ~graph[1].adjacency_matrix[1][i][j]

\* C16: the matrix with_distance_matrix stores is square of side |clusters|,
\* symmetric, zero on the diagonal, zero for two clusters with no edge, and the
\* edge's distance for two clusters joined by an edge.
C16_DistanceMatrix ==
    (graph # None /\ graph[1].distance_matrix # None) =>
        LET g == graph[1]
            dm == g.distance_matrix[1]
            n == Cardinality(g.clusters)
            at(i) == g.ordered_clusters[i]
        IN  /\ DOMAIN dm = 1 .. n
            /\ \A i \in 1 .. n : DOMAIN dm[i] = 1 .. n
            /\ \A i \in 1 .. n, j \in 1 .. n : dm[i][j] = dm[j][i]
            /\ \A i \in 1 .. n : dm[i][i] = 0
            /\ \A i \in 1 .. n, j \in 1 .. n :
                  i # j =>
                      /\ (\A e \in g.edges : ~Joins(e, at(i), at(j))) => dm[i][j] = 0
                      /\ \A e \in g.edges : Joins(e, at(i), at(j)) => dm[i][j] = e.distance

(***************************************************************************)
(* The edge detector (builder.rs).                                         *)
(***************************************************************************)
\* mutant: touching balls do not overlap
Overlaps_Strict(a, b) == Distance(a, b) < radius[a] + radius[b]

\* the ball-overlap test of detect_edges and Component::new
Overlaps(a, b) == Distance(a, b) <= radius[a] + radius[b]

\* the pairs of positions the nested loops of detect_edges visit:
\* enumerate() outside, enumerate().skip(i + 1) inside, guarded by i != j
DetectPairs(n) == {pr \in (1 .. n) \X (1 .. n) : pr[2] >= pr[1] + 1 /\ pr[1] # pr[2]}

\* detect_edges with the cluster set iterated in the order ord
DetectEdges(ord) ==
    {EdgeNew(ord[pr[1]], ord[pr[2]], Distance(ord[pr[1]], ord[pr[2]])) :
        pr \in {q \in DetectPairs(Len(ord)) : Overlaps(ord[q[1]], ord[q[2]])}}

\* the overlap tests a run over pairs of positions of s makes: how often each
\* unordered pair of clusters has its distance computed and compared
TestsOf(s, pairs) ==
    [u \in ClusterPairs |->
        Cardinality({q \in pairs : {s[q[1]], s[q[2]]} = u})]

detect_edges ==
    /\ pc = "from_clusters"
    /\ \E ord \in Orders(cluster_set) :
          /\ edges' = DetectEdges(ord)
          /\ tests' = TestsOf(ord, DetectPairs(Len(ord)))
    /\ pc' = "edges"
    /\ UNCHANGED <<inputs, result, candidates, cluster_set, clusters, graph, outcome,
                   unvisited, components, other, cgraph>>

(***************************************************************************)
(* The compact Graph and its Components (chaoda/graph.rs).  Positions in a *)
(* Component count from 1 here, from 0 in the source.                      *)
(***************************************************************************)
\* the index of a cluster's center among the points (external)
arg_center(c) == offset(parent, c) + cardinality(parent, c) - 1

\* the accumulated child-parent cardinality ratio of a cluster (external):
\* an opaque feature, told apart by the cluster it belongs to
accumulated_cp_car_ratio(c) == <<"cp_car_ratio", c>>

\* the ratio features of a cluster (external)
ratios(c) == <<"ratios", c>>

\* the pairs of positions Component::new tests: every i with every j # i
ComponentPairs(n) == {pr \in (1 .. n) \X (1 .. n) : pr[1] # pr[2]}

RECURSIVE NeighborsFrom(_, _, _)
\* the neighbors of position i among the positions j .. Len(cs), in order
NeighborsFrom(cs, i, j) ==
    IF j > Len(cs) THEN <<>>
    ELSE (IF i # j /\ Overlaps(cs[i], cs[j])
          THEN <<<<j, Distance(cs[i], cs[j])>>>> ELSE <<>>)
            \o NeighborsFrom(cs, i, j + 1)

RECURSIVE SumSeq(_)
SumSeq(s) == IF s = <<>> THEN 0 ELSE Head(s) + SumSeq(Tail(s))

\* Component::new
ComponentNew(cs) ==
    [clusters |-> [i \in 1 .. Len(cs) |->
                      <<offset(parent, cs[i]), cardinality(parent, cs[i]), arg_center(cs[i])>>],
     adjacency_list |-> [i \in 1 .. Len(cs) |-> NeighborsFrom(cs, i, 1)],
     population |-> SumSeq([i \in 1 .. Len(cs) |-> cardinality(parent, cs[i])]),
     eccentricities |-> None,
     diameter |-> None,
     neighborhood_sizes |-> None,
     accumulated_cp_car_ratios |-> [i \in 1 .. Len(cs) |-> accumulated_cp_car_ratio(cs[i])],
     anomaly_properties |-> [i \in 1 .. Len(cs) |-> ratios(cs[i])]]

\* Component::is_empty
is_empty(c) == c.clusters = <<>>

\* the traversal of partition(): a stack of positions, a visited mark each
RECURSIVE PartitionVisit(_, _, _)
PartitionVisit(adj, visited, stack) ==
    IF stack = <<>> THEN visited
    ELSE LET i == stack[Len(stack)]
             rest == SubSeq(stack, 1, Len(stack) - 1)
         IN  IF i \in visited THEN PartitionVisit(adj, visited, rest)
             ELSE PartitionVisit(adj, visited \cup {i},
                                 rest \o [k \in 1 .. Len(adj[i]) |-> adj[i][k][1]])

\* the elements of s at the positions in keep, in order
RECURSIVE KeepFrom(_, _, _)
KeepFrom(s, keep, i) ==
    IF i > Len(s) THEN <<>>
    ELSE (IF i \in keep THEN <<s[i]>> ELSE <<>>) \o KeepFrom(s, keep, i + 1)

\* mutant: every neighbor becomes the first position
Position_First(cs, old_offset) == 1

\* iter().position(|&(offset, _, _)| offset == old_offset): 0 when there is none
Position(cs, old_offset) ==
    IF \E k \in 1 .. Len(cs) : cs[k][1] = old_offset
    THEN CHOOSE k \in 1 .. Len(cs) :
            /\ cs[k][1] = old_offset
            /\ \A m \in 1 .. (k - 1) : cs[m][1] # old_offset
    ELSE 0

\* "Remap indices in adjacency list": position j of the old Component becomes
\* the position, in the new one, of the first cluster with j's offset
Remap(adj, old_clusters, new_clusters) ==
    [i \in 1 .. Len(adj) |->
        [k \in 1 .. Len(adj[i]) |->
            <<Position(new_clusters, old_clusters[adj[i][k][1]][1]), adj[i][k][2]>>]]

\* one of the two Components partition() builds, from the positions in keep
PartOf(c, keep) ==
    LET cs == KeepFrom(c.clusters, keep, 1)
    IN  [clusters |-> cs,
         adjacency_list |-> Remap(KeepFrom(c.adjacency_list, keep, 1), c.clusters, cs),
         population |-> SumSeq([i \in 1 .. Len(cs) |-> cs[i][2]]),
         eccentricities |-> None,
         diameter |-> None,
         neighborhood_sizes |-> None,
         accumulated_cp_car_ratios |-> KeepFrom(c.accumulated_cp_car_ratios, keep, 1),
         anomaly_properties |-> KeepFrom(c.anomaly_properties, keep, 1)]

\* mutant: the traversal stops at the first position
Visited_FirstOnly(c) == {1}

\* the positions partition() visits from the first position
Visited(c) == PartitionVisit(c.adjacency_list, {}, <<1>>)

\* Component::partition: the visited part and the rest
Partition(c) ==
    LET visited == Visited(c)
    IN  <<PartOf(c, visited), PartOf(c, (1 .. Len(c.clusters)) \ visited)>>

\* a neighbor was not found when the indices were remapped
RemapFailed(part) ==
    \E i \in 1 .. Len(part.adjacency_list) :
        \E k \in 1 .. Len(part.adjacency_list[i]) :
            part.adjacency_list[i][k][1] = 0

\* how partition() ends, and its two Components when it returns: the first
\* position of an empty Component does not exist (visited[0] is out of bounds);
\* a remapped neighbor must be found (unreachable!)
PartitionOutcome(c) ==
    IF is_empty(c) THEN <<"panic_index">>
    ELSE LET parts == Partition(c)
         IN  IF RemapFailed(parts[1]) \/ RemapFailed(parts[2])
             THEN <<"panic_unreachable">>
             ELSE <<"ok", parts>>

\* from_clusters up to the first call of partition()
component_new ==
    /\ pc = "from_clusters"
    /\ other' = Some(ComponentNew(clusters))
    /\ tests' = TestsOf(clusters, ComponentPairs(Len(clusters)))
    /\ components' = <<>>
    /\ pc' = "partition"
    /\ UNCHANGED <<inputs, result, candidates, cluster_set, clusters, edges, graph, outcome,
                   unvisited, cgraph>>

\* a call of partition() in from_clusters: the first one is made in any case,
\* the next ones while the rest is not empty
partition ==
    /\ pc = "partition"
    /\ components = <<>> \/ ~is_empty(other[1])
    /\ LET parts == PartitionOutcome(other[1])
       IN  /\ outcome' = parts[1]
           /\ IF parts[1] = "ok"
              THEN /\ components' = Append(components, parts[2][1])
                   /\ other' = Some(parts[2][2])
                   /\ pc' = pc
              ELSE /\ pc' = "panicked"
                   /\ UNCHANGED <<components, other>>
    /\ UNCHANGED <<inputs, result, candidates, cluster_set, clusters, edges, graph,
                   unvisited, cgraph, tests>>

\* the running sums of the Components' populations
RECURSIVE Scan(_, _)
Scan(s, acc) == IF s = <<>> THEN <<>> ELSE <<acc + Head(s)>> \o Scan(Tail(s), acc + Head(s))

\* the end of from_clusters: the rest is empty, the Graph is built
from_clusters_done ==
    /\ pc = "partition"
    /\ components # <<>> /\ is_empty(other[1])
    /\ cgraph' = Some([components |-> components,
                       populations |-> Scan([i \in 1 .. Len(components) |->
                                                components[i].population], 0),
                       members |-> {<<offset(parent, clusters[i]), cardinality(parent, clusters[i])>> :
                                        i \in 1 .. Len(clusters)}])
    /\ pc' = "compact_graph"
    /\ UNCHANGED <<inputs, result, candidates, cluster_set, clusters, edges, graph, outcome,
                   unvisited, components, other, tests>>

(***************************************************************************)
(* Specification of the edge detector and of the compact Graph: every list *)
(* of distinct clusters of a small tree (the empty list too), every        *)
(* placement of their centers, every radius.                               *)
(***************************************************************************)
Lists(S) ==
    UNION {{f \in [1 .. n -> S] : \A i, j \in 1 .. n : f[i] = f[j] => i = j} :
              n \in 0 .. MaxClusters}

InitCompact ==
    /\ parent \in GraphTrees
    /\ root = 1
    /\ score = [x \in DOMAIN parent |-> 0]
    /\ min_depth = 0
    /\ clusters \in Lists(DOMAIN parent)
    /\ cluster_set = Range(clusters)
    /\ radius \in [DOMAIN parent -> Radii]
    /\ center \in [DOMAIN parent -> Centers]
    /\ \A x \in DOMAIN parent : x \notin cluster_set => radius[x] = 0 /\ center[x] = 0
    /\ pc = "from_clusters"
    /\ candidates = {}
    /\ edges = {}
    /\ graph = None
    /\ outcome = "none"
    /\ unvisited = {}
    /\ components = <<>>
    /\ other = None
    /\ cgraph = None
    /\ tests = NoTests
    /\ result = None

NextCompact ==
    \/ detect_edges
    \/ component_new
    \/ partition
    \/ from_clusters_done

SpecCompact == InitCompact /\ [][NextCompact]_vars

(***************************************************************************)
(* f32 values (chaoda/graph.rs computes the stationary probabilities in    *)
(* f32).  A value is <<n, d>>: the fraction n/d in lowest terms when       *)
(* d > 0, +inf when it is <<1, 0>>, NaN when it is <<0, 0>>.  No value is  *)
(* negative here, and rounding is left out: finite values are exact.       *)
(***************************************************************************)
Zero == <<0, 1>>

One == <<1, 1>>

Infinity == <<1, 0>>

NotANumber == <<0, 0>>

IsNaN(x) == x = NotANumber

IsFinite(x) == x[2] # 0

RECURSIVE Gcd(_, _)
Gcd(a, b) == IF b = 0 THEN a ELSE Gcd(b, a % b)

\* the fraction n/d (d > 0) in lowest terms
Fraction(n, d) == <<n \div Gcd(n, d), d \div Gcd(n, d)>>

\* U::as_f32 of a distance
as_f32(d) == <<d, 1>>

\* x + y
FAdd(x, y) ==
    IF IsNaN(x) \/ IsNaN(y) THEN NotANumber
    ELSE IF x = Infinity \/ y = Infinity THEN Infinity
    ELSE Fraction(x[1] * y[2] + y[1] * x[2], x[2] * y[2])

\* x * y
FMul(x, y) ==
    IF IsNaN(x) \/ IsNaN(y) THEN NotANumber
    ELSE IF x = Infinity \/ y = Infinity
         THEN (IF x = Zero \/ y = Zero THEN NotANumber ELSE Infinity)
    ELSE Fraction(x[1] * y[1], x[2] * y[2])

\* x / y: a finite x over 0 is +inf, 0 / 0 and inf / inf are NaN
FDiv(x, y) ==
    IF IsNaN(x) \/ IsNaN(y) THEN NotANumber
    ELSE IF x = Infinity THEN (IF y = Infinity THEN NotANumber ELSE Infinity)
    ELSE IF y = Infinity THEN Zero
    ELSE IF y = Zero THEN (IF x = Zero THEN NotANumber ELSE Infinity)
    ELSE Fraction(x[1] * y[2], x[2] * y[1])

\* f32::recip
recip(x) == FDiv(One, x)

\* the sum of a sequence of values, from the left
RECURSIVE FSum(_)
FSum(s) == IF s = <<>> THEN Zero ELSE FAdd(FSum(SubSeq(s, 1, Len(s) - 1)), s[Len(s)])

(***************************************************************************)
(* The analytics of a Component (chaoda/graph.rs).                         *)
(***************************************************************************)
\* largest num_steps handed to compute_stationary_probabilities
MaxSteps == 1

\* Component::cardinality
component_cardinality(c) == Len(c.clusters)

\* the loop of compute_neighborhood_sizes: a stack of positions, a visited mark
\* each, one count pushed for every position visited
RECURSIVE NeighborhoodLoop(_, _, _, _)
NeighborhoodLoop(adj, visited, stack, sizes) ==
    IF stack = <<>> THEN sizes
    ELSE LET i == stack[Len(stack)]
             rest == SubSeq(stack, 1, Len(stack) - 1)
         IN  IF i \in visited THEN NeighborhoodLoop(adj, visited, rest, sizes)
             ELSE LET seen == visited \cup {i}
                      IsNew(nb) == nb[1] \notin seen
                      new_neighbors == SelectSeq(adj[i], IsNew)
                  IN  NeighborhoodLoop(adj, seen,
                          rest \o [k \in 1 .. Len(new_neighbors) |-> new_neighbors[k][1]],
                          Append(sizes, Len(new_neighbors)))

\* Component::compute_neighborhood_sizes: the running sums of the counts
compute_neighborhood_sizes(c, i) ==
    Scan(NeighborhoodLoop(c.adjacency_list, {}, <<i>>, <<>>), 0)

\* Component::neighborhood_sizes: computed once, then kept
neighborhood_sizes(c) ==
    IF c.neighborhood_sizes = None
    THEN [c EXCEPT !.neighborhood_sizes =
             Some([i \in 1 .. component_cardinality(c) |-> compute_neighborhood_sizes(c, i)])]
    ELSE c

\* Graph::neighborhood_sizes asks every Component
call_neighborhood_sizes ==
    /\ pc = "compact_graph"
    /\ cgraph' = Some([cgraph[1] EXCEPT
                         !.components = [i \in DOMAIN cgraph[1].components |->
                                            neighborhood_sizes(cgraph[1].components[i])]])
    /\ result' = [op |-> "neighborhood_sizes", arg |-> None,
                  value |-> [i \in DOMAIN cgraph[1].components |->
                               neighborhood_sizes(cgraph[1].components[i]).neighborhood_sizes[1]]]
    /\ pc' = "compact_returned"
    /\ UNCHANGED <<inputs, candidates, cluster_set, clusters, edges, graph, outcome,
                   unvisited, components, other, tests>>

\* iter().max().unwrap_or(0)
MaxOrZero(s) == CHOOSE x \in Range(s) \cup {0} : \A y \in Range(s) \cup {0} : y <= x

\* Component::compute_eccentricities: the length of each neighborhood_sizes entry
compute_eccentricities(c) ==
    LET d == neighborhood_sizes(c)
    IN  [d EXCEPT !.eccentricities =
            Some([i \in 1 .. component_cardinality(d) |-> Len(d.neighborhood_sizes[1][i])])]

\* Component::diameter: computed once from the eccentricities, then kept
component_diameter(c) ==
    IF c.diameter = None
    THEN LET e == IF c.eccentricities = None THEN compute_eccentricities(c) ELSE c
         IN  [e EXCEPT !.diameter = Some(MaxOrZero(e.eccentricities[1]))]
    ELSE c

\* Graph::diameter: the largest diameter of a Component, 0 without Components
call_graph_diameter ==
    /\ pc = "compact_graph"
    /\ LET cs == [i \in DOMAIN cgraph[1].components |->
                     component_diameter(cgraph[1].components[i])]
       IN  /\ cgraph' = Some([cgraph[1] EXCEPT !.components = cs])
           /\ result' = [op |-> "diameter", arg |-> None,
                         value |-> MaxOrZero([i \in DOMAIN cs |-> cs[i].diameter[1]])]
    /\ pc' = "compact_returned"
    /\ UNCHANGED <<inputs, candidates, cluster_set, clusters, edges, graph, outcome,
                   unvisited, components, other, tests>>

\* flat_map over the Components: their per-cluster arrays one after the other
RECURSIVE Flatten(_)
Flatten(ss) == IF ss = <<>> THEN <<>> ELSE Head(ss) \o Flatten(Tail(ss))

\* Graph::iter_clusters, collected
iter_clusters(g) == Flatten([i \in DOMAIN g.components |-> g.components[i].clusters])

\* Graph::iter_neighbors, collected
iter_neighbors(g) == Flatten([i \in DOMAIN g.components |-> g.components[i].adjacency_list])

\* Graph::accumulated_cp_car_ratios
accumulated_cp_car_ratios(g) ==
    Flatten([i \in DOMAIN g.components |-> g.components[i].accumulated_cp_car_ratios])

\* Graph::iter_anomaly_properties, collected
iter_anomaly_properties(g) ==
    Flatten([i \in DOMAIN g.components |-> g.components[i].anomaly_properties])

\* Graph::population
population(g) == IF g.populations = <<>> THEN 0 ELSE g.populations[Len(g.populations)]

\* sort_indices: the enumerated clusters sorted by offset (sort_unstable_by_key,
\* any order among equal offsets); position k holds the flat index it came from
SortIndices(g) ==
    LET flat == iter_clusters(g)
        n == Len(flat)
    IN  {s \in [1 .. n -> 1 .. n] :
            /\ \A i \in 1 .. n, j \in 1 .. n : s[i] = s[j] => i = j
            /\ \A k \in 1 .. (n - 1) : flat[s[k]][1] <= flat[s[k + 1]][1]}

\* items.zip(sort_indices), sort_unstable_by_key on the index, the items kept
ZipSortByIndex(items, sort_indices) ==
    [k \in 1 .. Len(items) |-> items[CHOOSE m \in 1 .. Len(items) : sort_indices[m] = k]]

\* Graph::as_single_component for the sort_indices s
AsSingleComponent(g, s) ==
    IF Len(g.components) = 1 THEN g
    ELSE LET flat == iter_clusters(g)
             c == [clusters |-> [k \in 1 .. Len(flat) |-> flat[s[k]]],
                   adjacency_list |-> ZipSortByIndex(iter_neighbors(g), s),
                   population |-> population(g),
                   eccentricities |-> None,
                   diameter |-> None,
                   neighborhood_sizes |-> None,
                   accumulated_cp_car_ratios |->
                       ZipSortByIndex(accumulated_cp_car_ratios(g), s),
                   anomaly_properties |-> ZipSortByIndex(iter_anomaly_properties(g), s)]
         IN  [components |-> <<c>>,
              populations |-> <<population(g)>>,
              members |-> g.members]

as_single_component ==
    /\ pc = "compact_graph"
    /\ \E s \in SortIndices(cgraph[1]) :
          result' = [op |-> "as_single_component", arg |-> None,
                     value |-> AsSingleComponent(cgraph[1], s)]
    /\ pc' = "compact_returned"
    /\ UNCHANGED <<inputs, candidates, cluster_set, clusters, edges, graph, outcome,
                   unvisited, components, other, cgraph, tests>>

\* the last distance written at row i, column j of the transition matrix
RECURSIVE LastWeight(_, _, _)
LastWeight(neighbors, j, k) ==
    IF k = 0 THEN Zero
    ELSE IF neighbors[k][1] = j THEN recip(as_f32(neighbors[k][2]))
    ELSE LastWeight(neighbors, j, k - 1)

\* the transition matrix before it is normalized: zeros, then d.recip() at
\* [i][j] for every neighbor (j, d) of i
Weights(c) ==
    [i \in 1 .. component_cardinality(c) |->
        [j \in 1 .. component_cardinality(c) |->
            LastWeight(c.adjacency_list[i], j, Len(c.adjacency_list[i]))]]

\* mutant: the rows are left as they are
Normalize_Skip(m) == m

\* "Normalize the transition matrix so that each row sums to 1"
Normalize(m) ==
    [i \in DOMAIN m |-> [j \in DOMAIN m[i] |-> FDiv(m[i][j], FSum(m[i]))]]

\* transition_matrix.dot(&transition_matrix)
Dot(a, b) ==
    [i \in DOMAIN a |-> [j \in DOMAIN a |->
        FSum([k \in DOMAIN a |-> FMul(a[i][k], b[k][j])])]]

\* the matrix squared num_steps times
RECURSIVE Squared(_, _)
Squared(m, num_steps) == IF num_steps = 0 THEN m ELSE Squared(Dot(m, m), num_steps - 1)

\* sum_axis(Axis(1))
RowSums(m) == [i \in DOMAIN m |-> FSum(m[i])]

\* mutant: a Component of one cluster is treated like the others
IsSingleton_Never(c) == FALSE

\* "Singleton components need to be marked as anomalous"
IsSingleton(c) == component_cardinality(c) = 1

\* the values compute_stationary_probabilities divides by: the distances it
\* takes the reciprocal of, the row sums it normalizes with
Divisors(c) ==
    UNION {{as_f32(c.adjacency_list[i][k][2]) : k \in DOMAIN c.adjacency_list[i]} :
              i \in DOMAIN c.adjacency_list}
        \cup {FSum(Weights(c)[i]) : i \in DOMAIN c.adjacency_list}

\* Component::compute_stationary_probabilities up to the squaring loop: the
\* early return for a single cluster, else the normalized transition matrix
stationary_begin ==
    /\ pc = "compact_graph"
    /\ \E i \in DOMAIN cgraph[1].components, n \in 0 .. MaxSteps :
          LET c == cgraph[1].components[i]
          IN  IF IsSingleton(c)
              THEN /\ result' = [op |-> "compute_stationary_probabilities",
                                 arg |-> <<i, n>>,
                                 divisors |-> {},
                                 transition_matrix |-> None,
                                 value |-> Some(<<Zero>>)]
                   /\ pc' = "compact_returned"
              ELSE /\ result' = [op |-> "compute_stationary_probabilities",
                                 arg |-> <<i, n>>,
                                 divisors |-> Divisors(c),
                                 transition_matrix |-> Some(Normalize(Weights(c))),
                                 value |-> None]
                   /\ pc' = "stationary_squaring"
    /\ UNCHANGED <<inputs, candidates, cluster_set, clusters, edges, graph, outcome,
                   unvisited, components, other, cgraph, tests>>

\* the squaring loop and the row sums it returns
stationary_finish ==
    /\ pc = "stationary_squaring"
    /\ LET m == Squared(result.transition_matrix[1], result.arg[2])
       IN  result' = [result EXCEPT !.transition_matrix = Some(m),
                                    !.value = Some(RowSums(m))]
    /\ pc' = "compact_returned"
    /\ UNCHANGED <<inputs, candidates, cluster_set, clusters, edges, graph, outcome,
                   unvisited, components, other, cgraph, tests>>

(***************************************************************************)
(* Specification of the analytics: the compact Graph of every list of      *)
(* selected clusters (an antichain) of a small tree, with centers far      *)
(* enough apart for edges of different distances.                          *)
(***************************************************************************)
WalkCenters == 0 .. 2

SelectedLists == {l \in Lists(DOMAIN parent) : Antichain(Range(l))}

InitAnalytics ==
    /\ parent \in GraphTrees
    /\ root = 1
    /\ score = [x \in DOMAIN parent |-> 0]
    /\ min_depth = 0
    /\ clusters \in SelectedLists
    /\ cluster_set = Range(clusters)
    /\ radius \in [DOMAIN parent -> Radii]
    /\ center \in [DOMAIN parent -> WalkCenters]
    /\ \A x \in DOMAIN parent : x \notin cluster_set => radius[x] = 0 /\ center[x] = 0
    /\ pc = "from_clusters"
    /\ candidates = {}
    /\ edges = {}
    /\ graph = None
    /\ outcome = "none"
    /\ unvisited = {}
    /\ components = <<>>
    /\ other = None
    /\ cgraph = None
    /\ tests = NoTests
    /\ result = None

NextAnalytics ==
    \/ component_new
    \/ partition
    \/ from_clusters_done
    \/ call_neighborhood_sizes
    \/ call_graph_diameter
    \/ as_single_component
    \/ stationary_begin
    \/ stationary_finish

SpecAnalytics == InitAnalytics /\ [][NextAnalytics]_vars

(***************************************************************************)
(* Properties of the edge detector and of the compact Graph.               *)
(***************************************************************************)
\* the triple a Component keeps of a cluster
NodeOf(c) == <<offset(parent, c), cardinality(parent, c), arg_center(c)>>

\* the places (Component, position) of the Components cs that hold the cluster x
PlacesOf(cs, x) ==
    {pl \in (DOMAIN cs) \X (1 .. MaxClusters) :
        /\ pl[2] \in DOMAIN cs[pl[1]].clusters
        /\ cs[pl[1]].clusters[pl[2]] = NodeOf(x)}

\* the Components of cs that hold the cluster x
HomeOf(cs, x) == {pl[1] : pl \in PlacesOf(cs, x)}

\* the balls of a and b intersect
BallsMeet(a, b) == Distance(a, b) <= radius[a] + radius[b]

\* the positions reached from the positions in S along the adjacency list adj
RECURSIVE Reachable(_, _)
Reachable(adj, S) ==
    LET T == S \cup UNION {{adj[i][k][1] : k \in DOMAIN adj[i]} : i \in S}
    IN  IF T = S THEN S ELSE Reachable(adj, T)

\* a list handed to from_clusters by a selector: not empty, an antichain
SelectedList == clusters # <<>> /\ Antichain(cluster_set)

\* C3: for a non-empty list of selected clusters from_clusters returns, and
\* its Components partition the list: every cluster of the list is at exactly
\* one place of exactly one Component, every place holds a cluster of the
\* list, and two clusters whose balls intersect are in the same Component.
C3_Partition ==
    SelectedList =>
        /\ outcome \notin {"panic_index", "panic_unreachable"}
        /\ pc = "compact_graph" =>
              LET cs == cgraph[1].components
              IN  /\ \A x \in cluster_set : Cardinality(PlacesOf(cs, x)) = 1
                  /\ \A i \in DOMAIN cs : \A k \in DOMAIN cs[i].clusters :
                        \E x \in cluster_set : cs[i].clusters[k] = NodeOf(x)
                  /\ \A a \in cluster_set, b \in cluster_set :
                        (a # b /\ BallsMeet(a, b)) => HomeOf(cs, a) = HomeOf(cs, b)

\* three selected clusters: the first and the last of the list intersect and
\* make one Component, the one between them is alone in the other
C3_Witness ==
    /\ pc = "compact_graph"
    /\ SelectedList
    /\ Len(clusters) = 3
    /\ BallsMeet(clusters[1], clusters[3])
    /\ Len(cgraph[1].components) = 2
    /\ cgraph[1].components[1].clusters = <<NodeOf(clusters[1]), NodeOf(clusters[3])>>
    /\ cgraph[1].components[2].clusters = <<NodeOf(clusters[2])>>

\* C4: every Component built from a list of selected clusters is a maximal
\* connected subgraph: its neighbor indices are positions of the Component,
\* every position is reached from every other one along the adjacency list,
\* and no cluster outside the Component intersects a cluster inside.
C4_MaximalConnected ==
    (SelectedList /\ pc \in {"partition", "compact_graph"}) =>
        \A i \in DOMAIN components :
            LET c == components[i]
                n == Len(c.clusters)
                inside == {x \in cluster_set : \E k \in 1 .. n : c.clusters[k] = NodeOf(x)}
            IN  /\ n > 0
                /\ Len(c.adjacency_list) = n
                /\ \A k \in 1 .. n : \A m \in DOMAIN c.adjacency_list[k] :
                      c.adjacency_list[k][m][1] \in 1 .. n
                /\ \A k \in 1 .. n : Reachable(c.adjacency_list, {k}) = 1 .. n
                /\ \A x \in cluster_set \ inside : \A y \in inside : ~BallsMeet(x, y)

\* a Component of three selected clusters of which the first and the last do
\* not intersect: they are joined through the one between them only
C4_Witness ==
    /\ pc = "compact_graph"
    /\ SelectedList
    /\ Len(clusters) = 3
    /\ Len(cgraph[1].components) = 1
    /\ Len(cgraph[1].components[1].clusters) = 3
    /\ ~BallsMeet(clusters[1], clusters[3])
    /\ BallsMeet(clusters[1], clusters[2])
    /\ BallsMeet(clusters[2], clusters[3])

\* detect_edges emitted an edge between a and b exactly when their balls intersect
EdgeIffMeet(a, b) == (\E e \in edges : Joins(e, a, b)) <=> BallsMeet(a, b)

\* Component::new made position j a neighbor of position i, with the distance
\* of the two clusters, exactly when their balls intersect
NeighborIffMeet(i, j) ==
    LET nb == other[1].adjacency_list[i]
    IN  /\ (\E k \in DOMAIN nb : nb[k][1] = j) <=> BallsMeet(clusters[i], clusters[j])
        /\ \A k \in DOMAIN nb :
              nb[k][1] = j => nb[k][2] = Distance(clusters[i], clusters[j])

\* Component::new has run, partition() not yet
AfterComponentNew == pc = "partition" /\ components = <<>>

\* C5: detect_edges emits an edge between two distinct candidates exactly when
\* distance <= radius + radius, and tests each unordered pair once;
\* Component::new makes j a neighbor of i (i # j) exactly when
\* distance <= radius + radius, and tests each unordered pair twice, once from
\* each of its two clusters.
C5_EdgeDetection ==
    /\ pc = "edges" =>
          /\ \A a \in cluster_set, b \in cluster_set :
                a # b => tests[{a, b}] = 1 /\ EdgeIffMeet(a, b)
          /\ \A e \in edges :
                e.left # e.right /\ e.left \in cluster_set /\ e.right \in cluster_set
    /\ AfterComponentNew =>
          /\ \A i \in DOMAIN clusters, j \in DOMAIN clusters :
                i # j => /\ tests[{clusters[i], clusters[j]}] = 2
                         /\ NeighborIffMeet(i, j)
          /\ \A i \in DOMAIN clusters : \A k \in DOMAIN other[1].adjacency_list[i] :
                other[1].adjacency_list[i][k][1] # i

\* Component::new over three clusters: two whose balls touch (the distance is
\* the sum of the radii, not 0), two whose balls do not intersect
C5_Witness ==
    /\ AfterComponentNew
    /\ Len(clusters) = 3
    /\ \E i \in DOMAIN clusters, j \in DOMAIN clusters :
          /\ i # j
          /\ Distance(clusters[i], clusters[j]) > 0
          /\ Distance(clusters[i], clusters[j]) = radius[clusters[i]] + radius[clusters[j]]
    /\ \E i \in DOMAIN clusters, j \in DOMAIN clusters :
          i # j /\ ~BallsMeet(clusters[i], clusters[j])

\* C5 as the specification states it: each unordered pair is tested exactly
\* once, by detect_edges and by Component::new
C5_TestedOnce ==
    /\ pc = "edges" =>
          \A a \in cluster_set, b \in cluster_set :
              a # b => tests[{a, b}] = 1 /\ EdgeIffMeet(a, b)
    /\ AfterComponentNew =>
          \A i \in DOMAIN clusters, j \in DOMAIN clusters :
              i # j => /\ tests[{clusters[i], clusters[j]}] = 1
                       /\ NeighborIffMeet(i, j)

(***************************************************************************)
(* Properties of the analytics of a Component.                             *)
(***************************************************************************)
\* the selected cluster kept at position k of the Component c
ClusterAt(c, k) == CHOOSE x \in cluster_set : NodeOf(x) = c.clusters[k]

\* compute_stationary_probabilities was called and is at position p
Stationary(p) ==
    pc = p /\ result # None /\ result.op = "compute_stationary_probabilities"

\* the Component compute_stationary_probabilities was called on
Walked == cgraph[1].components[result.arg[1]]

\* C17: on a Component of one cluster compute_stationary_probabilities(n)
\* returns [0.0] for every n, and builds no transition matrix.
C17_Singleton ==
    /\ (Stationary("compact_returned") /\ Len(Walked.clusters) = 1) =>
          /\ result.value = Some(<<Zero>>)
          /\ result.transition_matrix = None
    /\ Stationary("stationary_squaring") => Len(Walked.clusters) # 1

\* the lone cluster of a Graph of two Components, asked with num_steps > 0
C17_Witness ==
    /\ Stationary("compact_returned")
    /\ Len(cgraph[1].components) = 2
    /\ Len(Walked.clusters) = 1
    /\ Walked.adjacency_list = <<<<>>>>
    /\ result.arg[2] > 0
    /\ result.value = Some(<<Zero>>)

\* C18: for a Component of two or more clusters whose edges all have a
\* distance > 0, the transition matrix before the squaring has every row
\* summing to 1, is 0 where there is no edge, and on the edges of a row is
\* proportional to 1 / distance.
C18_RowNormalized ==
    Stationary("stationary_squaring") =>
        LET c == Walked
            n == Len(c.clusters)
            m == result.transition_matrix[1]
            at(k) == ClusterAt(c, k)
            edge(i, j) == i # j /\ BallsMeet(at(i), at(j))
            dist(i, j) == as_f32(Distance(at(i), at(j)))
        IN  (\A i \in 1 .. n, j \in 1 .. n : edge(i, j) => Distance(at(i), at(j)) > 0) =>
                /\ n >= 2
                /\ DOMAIN m = 1 .. n
                /\ \A i \in 1 .. n : DOMAIN m[i] = 1 .. n /\ FSum(m[i]) = One
                /\ \A i \in 1 .. n, j \in 1 .. n : ~edge(i, j) => m[i][j] = Zero
                /\ \A i \in 1 .. n, j \in 1 .. n :
                      edge(i, j) =>
                          /\ IsFinite(m[i][j]) /\ m[i][j] # Zero
                          /\ \A j2 \in 1 .. n :
                                edge(i, j2) =>
                                    FMul(m[i][j], dist(i, j)) = FMul(m[i][j2], dist(i, j2))

\* a row with a neighbor at distance 1 and a neighbor at distance 2: 2/3 and 1/3
C18_Witness ==
    /\ Stationary("stationary_squaring")
    /\ Len(Walked.clusters) = 3
    /\ \A i \in 1 .. 3 : \A k \in DOMAIN Walked.adjacency_list[i] :
          Walked.adjacency_list[i][k][2] > 0
    /\ \E i \in 1 .. 3, j \in 1 .. 3, j2 \in 1 .. 3 :
          /\ result.transition_matrix[1][i][j] = <<2, 3>>
          /\ result.transition_matrix[1][i][j2] = <<1, 3>>

\* C19: compute_stationary_probabilities never divides by zero: not when it
\* takes the reciprocal of a distance, not when it divides a row by its sum.
C19_NoDivisionByZero ==
    (Stationary("stationary_squaring") \/ Stationary("compact_returned")) =>
        Zero \notin result.divisors

\* the positions within k steps of i along the adjacency list adj
RECURSIVE ReachWithin(_, _, _)
ReachWithin(adj, i, k) ==
    IF k = 0 THEN {i}
    ELSE LET W == ReachWithin(adj, i, k - 1)
         IN  W \cup UNION {{adj[a][b][1] : b \in DOMAIN adj[a]} : a \in W}

\* C20: neighborhood_sizes[i][k] is the number of clusters reached from i
\* within k steps; the sequence does not decrease, and its last entry is at
\* most the number of the other clusters of the Component.
C20_NeighborhoodSizes ==
    (pc = "compact_returned" /\ result.op = "neighborhood_sizes") =>
        \A ci \in DOMAIN result.value : \A i \in DOMAIN result.value[ci] :
            LET ns == result.value[ci][i]
                c == cgraph[1].components[ci]
            IN  /\ \A k \in DOMAIN ns :
                      ns[k] = Cardinality(ReachWithin(c.adjacency_list, i, k)) - 1
                /\ \A k \in DOMAIN ns : k > 1 => ns[k - 1] <= ns[k]
                /\ ns # <<>> => ns[Len(ns)] <= Len(c.clusters) - 1

\* the least number of steps after which no new position is reached from i
CompactHops(adj, i) ==
    CHOOSE k \in 0 .. Len(adj) :
        /\ ReachWithin(adj, i, k + 1) = ReachWithin(adj, i, k)
        /\ \A m \in 0 .. (k - 1) : ReachWithin(adj, i, m + 1) # ReachWithin(adj, i, m)

\* C21: after Graph::diameter, eccentricities[i] is the length of
\* neighborhood_sizes[i] and the number of breadth-first levels that reach all
\* of i's Component from i (the level of i itself counted or not), the
\* diameter of a Component is its largest eccentricity, and Graph::diameter
\* returns the largest diameter of a Component.
C21_Eccentricity ==
    (pc = "compact_returned" /\ result.op = "diameter") =>
        /\ \A ci \in DOMAIN cgraph[1].components :
              LET c == cgraph[1].components[ci]
                  ecc == c.eccentricities[1]
              IN  /\ DOMAIN ecc = DOMAIN c.clusters
                  /\ \A i \in DOMAIN ecc :
                        /\ ecc[i] = Len(c.neighborhood_sizes[1][i])
                        /\ ecc[i] \in {CompactHops(c.adjacency_list, i),
                                       CompactHops(c.adjacency_list, i) + 1}
                  /\ c.diameter = Some(Largest(Range(ecc)))
        /\ result.value = Largest({cgraph[1].components[ci].diameter[1] :
                                      ci \in DOMAIN cgraph[1].components})

\* the places (Component, position) of the Graph g that hold the node nd
PlacesIn(g, nd) ==
    {pl \in UNION {{<<ci, li>> : li \in DOMAIN g.components[ci].clusters} :
                      ci \in DOMAIN g.components} :
        g.components[pl[1]].clusters[pl[2]] = nd}

\* C22: as_single_component on a Graph of several Components returns one
\* Component that lists every node in ascending offset order; the neighbor
\* list, the accumulated ratio and the anomaly properties at a position are
\* those of the node at that position, every neighbor index is the position
\* of the node it referred to before, with the same distance; population and
\* members are unchanged.
C22_AsSingleComponent ==
    (pc = "compact_returned" /\ result.op = "as_single_component"
        /\ Len(cgraph[1].components) > 1) =>
        LET g == cgraph[1]
            h == result.value
            c == h.components[1]
            n == Len(iter_clusters(g))
        IN  /\ Len(h.components) = 1
            /\ Len(c.clusters) = n
            /\ Range(c.clusters) = Range(iter_clusters(g))
            /\ \A k \in 1 .. (n - 1) : c.clusters[k][1] <= c.clusters[k + 1][1]
            /\ population(h) = population(g) /\ c.population = population(g)
            /\ h.members = g.members
            /\ \A k \in 1 .. n : \A pl \in PlacesIn(g, c.clusters[k]) :
                  LET old == g.components[pl[1]]
                  IN  /\ c.accumulated_cp_car_ratios[k] = old.accumulated_cp_car_ratios[pl[2]]
                      /\ c.anomaly_properties[k] = old.anomaly_properties[pl[2]]
                      /\ Len(c.adjacency_list[k]) = Len(old.adjacency_list[pl[2]])
                      /\ \A e \in DOMAIN c.adjacency_list[k] :
                            /\ c.adjacency_list[k][e][1] \in 1 .. n
                            /\ c.clusters[c.adjacency_list[k][e][1]]
                                  = old.clusters[old.adjacency_list[pl[2]][e][1]]
                            /\ c.adjacency_list[k][e][2] = old.adjacency_list[pl[2]][e][2]

\* the step selects the cluster c: get_clusterset inserts it, from_tree pushes it
Selects(c) ==
    \/ pc = "get_clusterset" /\ c \in cluster_set' /\ c \notin cluster_set
    \/ /\ pc = "from_tree"
       /\ Len(clusters') = Len(clusters) + 1
       /\ clusters'[Len(clusters')] = c

\* C23: whenever score-driven selection (get_clusterset, Graph::from_tree)
\* selects a cluster, no candidate still in the queue with the same score is
\* shallower; in particular no equal-scored ancestor of it is in the queue.
C23_TieBreak ==
    [][\A c \in DOMAIN parent :
          Selects(c) =>
              \A o \in candidates :
                  (score[o] = score[c] /\ score[c] # NaN) =>
                      /\ depth(parent, c) <= depth(parent, o)
                      /\ ~is_ancestor_of(parent, o, c)]_vars

\* prev_value >= curr_value on f64: false when either is NaN
ScoreGe(a, b) == a # NaN /\ b # NaN /\ a >= b

\* C24: draining the queue of score_clusters pops every cluster of the
\* subtree once and yields its score; when no score is NaN the scores come in
\* non-increasing order, and when moreover the scoring function returns no
\* negative score each of them is non-negative.
C24_Drain ==
    pc = "drain" =>
        LET sub == subtree(parent, root)
            drained == result.value
        IN  /\ Len(drained) = Len(result.nodes)
            /\ \A i \in DOMAIN drained, j \in DOMAIN drained :
                  result.nodes[i] = result.nodes[j] => i = j
            /\ Range(result.nodes) \cup candidates = sub
            /\ Range(result.nodes) \cap candidates = {}
            /\ \A i \in DOMAIN drained : drained[i] = score[result.nodes[i]]
            /\ (\A x \in sub : score[x] # NaN) =>
                  \A i \in 1 .. (Len(drained) - 1) : ScoreGe(drained[i], drained[i + 1])
            /\ (\A x \in sub : score[x] # NaN /\ score[x] >= 0) =>
                  \A i \in DOMAIN drained : ScoreGe(drained[i], 0)

\* a queue of four clusters drained to the end, their scores non-negative
\* numbers that are not all the same
C24_Witness ==
    /\ pc = "drain"
    /\ candidates = {}
    /\ Len(result.value) = 4
    /\ \A i \in DOMAIN result.value : ScoreGe(result.value[i], 0)
    /\ result.value[1] # result.value[4]

\* C24 as stated: for every scoring function the drained scores are
\* non-increasing and non-negative, one for each cluster of the subtree
C24_AnyScores ==
    pc = "drain" =>
        /\ Len(result.value) + Cardinality(candidates)
              = Cardinality(subtree(parent, root))
        /\ \A i \in 1 .. (Len(result.value) - 1) :
              ScoreGe(result.value[i], result.value[i + 1])
        /\ \A i \in DOMAIN result.value : ScoreGe(result.value[i], 0)

\* with incomparable scores taken as equal, the root of the subtree is above
\* every other candidate: no score is greater than its own, and it is the
\* shallowest
RootWinsAsEqual ==
    /\ Eligible(root)
    /\ \E x \in subtree(parent, root) : score[x] = NaN
    /\ \A o \in subtree(parent, root) \ {root} :
          score[o] = NaN \/ score[root] = NaN \/ score[o] <= score[root]

\* C25: with NaN scores the selection completes with an antichain that covers
\* the subtree, and a NaN score counts as equal to the score it is compared
\* with: in Graph::from_tree, where equal scores leave the choice to the
\* depth, a root that no comparable score exceeds is selected.
C25_NaNEqual ==
    /\ pc = "get_clusterset_done" =>
          /\ Antichain(cluster_set)
          /\ \A x \in subtree(parent, root) : Covered(x, cluster_set)
    /\ pc = "from_clusters" =>
          /\ Antichain(Range(clusters))
          /\ \A x \in subtree(parent, root) : Covered(x, Range(clusters))
          /\ RootWinsAsEqual => clusters = <<root>>

\* C26: every cluster Graph::from_tree selects is a leaf or has a depth of at
\* least min_depth, and the list handed to from_clusters is in strictly
\* ascending order of offset.
C26_EligibleSorted ==
    /\ pc \in {"from_tree", "from_clusters"} =>
          \A i \in DOMAIN clusters :
              is_leaf(parent, clusters[i]) \/ depth(parent, clusters[i]) >= min_depth
    /\ pc = "from_clusters" =>
          \A i \in 1 .. (Len(clusters) - 1) :
              offset(parent, clusters[i]) < offset(parent, clusters[i + 1])

\* three clusters were selected in an order that is not the order of their
\* offsets, one of them a leaf above min_depth, and are handed over sorted
C26_Witness ==
    /\ pc = "from_clusters"
    /\ Len(clusters) = 3
    /\ \E i \in DOMAIN clusters :
          is_leaf(parent, clusters[i]) /\ depth(parent, clusters[i]) < min_depth
    /\ score[clusters[1]] # NaN
    /\ \E i \in DOMAIN clusters : score[clusters[i]] > score[clusters[1]]
    /\ \A i \in 1 .. 2 : offset(parent, clusters[i]) < offset(parent, clusters[i + 1])

\* C27: select_clusters returns exactly the clusters of the subtree whose
\* depth is the depth of its root divided by 2 (integer division), an
\* antichain: the root alone when it is the root of the tree, no cluster when
\* it lies deeper.
C27_DepthCut ==
    pc = "select_clusters_done" =>
        /\ \A x \in DOMAIN parent :
              x \in cluster_set <=>
                  /\ x = root \/ is_descendant_of(parent, x, root)
                  /\ 2 * depth(parent, x) \in {depth(parent, root), depth(parent, root) - 1}
        /\ Antichain(cluster_set)
        /\ depth(parent, root) = 0 => cluster_set = {root}
        /\ depth(parent, root) > 0 => cluster_set = {}

\* the depth cut of a whole tree with clusters two levels below its root
C27_Witness ==
    /\ pc = "select_clusters_done"
    /\ cluster_set = {root}
    /\ \E x \in subtree(parent, root) : depth(parent, x) = 2

\* the position in the Component old of the cluster at position k of part
OldPosition(old, part, k) ==
    CHOOSE i \in DOMAIN old.clusters : old.clusters[i] = part.clusters[k]

\* part keeps, for each of its clusters, the neighbors the cluster had in old
KeepsEdges(old, part) ==
    LET n == Len(part.clusters)
    IN  /\ Len(part.adjacency_list) = n
        /\ \A k \in 1 .. n :
              LET i == OldPosition(old, part, k)
              IN  /\ part.clusters[k] \in Range(old.clusters)
                  /\ Len(part.adjacency_list[k]) = Len(old.adjacency_list[i])
                  /\ \A e \in DOMAIN part.adjacency_list[k] :
                        /\ part.adjacency_list[k][e][1] \in 1 .. n
                        /\ part.clusters[part.adjacency_list[k][e][1]]
                              = old.clusters[old.adjacency_list[i][e][1]]
                        /\ part.adjacency_list[k][e][2] = old.adjacency_list[i][e][2]
        /\ \A k \in 1 .. n : \A m \in 1 .. n :
              k < m => OldPosition(old, part, k) < OldPosition(old, part, m)
        /\ \A k \in 1 .. n : \A e \in DOMAIN part.adjacency_list[k] :
              LET j == part.adjacency_list[k][e][1]
              IN  j \in 1 .. n =>
                    \E f \in DOMAIN part.adjacency_list[j] :
                        part.adjacency_list[j][f] = <<k, part.adjacency_list[k][e][2]>>

\* C28: every call of partition() on a Component that is not empty returns,
\* and in both Components it returns every neighbor index is a position of
\* the Component and is the position of the cluster (same offset, cardinality
\* and center) the index stood for, with the same distance; the clusters keep
\* their relative order and the adjacency lists stay symmetric.
C28_PartitionKeepsEdges ==
    [][(pc = "partition" /\ ~is_empty(other[1])) =>
          /\ outcome' = "ok"
          /\ Len(components') = Len(components) + 1
          /\ KeepsEdges(other[1], components'[Len(components')])
          /\ KeepsEdges(other[1], other'[1])
          /\ Len(components'[Len(components')].clusters) + Len(other'[1].clusters)
                = Len(other[1].clusters)]_vars

\* C29: from_clusters never calls partition() on an empty Component (the call
\* would index position 0 of an empty visited vector), whatever the list; on
\* the empty list it returns a Graph whose population and diameter are 0.
C29_EmptyList ==
    /\ outcome # "panic_index"
    /\ clusters = <<>> =>
          /\ pc # "panicked"
          /\ pc \in {"compact_graph", "compact_returned"} => population(cgraph[1]) = 0
          /\ (pc = "compact_returned" /\ result.op = "diameter") => result.value = 0

\* eccentricity, frontier_sizes or diameter was called and has ended
Measured(s) ==
    /\ s.pc \in {"returned", "panicked"}
    /\ s.result # None
    /\ s.result.op \in {"eccentricity", "frontier_sizes", "diameter"}

\* C30: eccentricity(c) and frontier_sizes(c) for a cluster c of the Graph,
\* and diameter(), return a value or an Err and never abort, also when
\* with_eccentricities was not applied; after it they return the length
\* (the sequence) of the frontier sizes traverse(c) yields, diameter() the
\* largest length; and with_eccentricities changes no other field of the Graph.
C30_Eccentricities ==
    [][/\ Measured([pc |-> pc', result |-> result']) =>
            LET g == graph'[1]
                r == result'
                sizes(c) == traverse(g, c)[2][2]
            IN  /\ (r.op = "diameter" \/ r.arg \in g.clusters) =>
                      /\ pc' = "returned"
                      /\ r.value[1] \in {"Ok", "Err"}
                /\ (g.frontier_sizes # None /\ r.op = "eccentricity" /\ r.arg \in g.clusters) =>
                      r.value = <<"Ok", Len(sizes(r.arg))>>
                /\ (g.frontier_sizes # None /\ r.op = "frontier_sizes" /\ r.arg \in g.clusters) =>
                      r.value = <<"Ok", sizes(r.arg)>>
                /\ (g.frontier_sizes # None /\ r.op = "diameter") =>
                      r.value = <<"Ok", Largest({Len(sizes(c)) : c \in g.clusters})>>
       /\ (graph # None /\ graph' # None
              /\ graph'[1].frontier_sizes # graph[1].frontier_sizes) =>
            graph' = Some([graph[1] EXCEPT !.frontier_sizes = graph'[1].frontier_sizes])]_vars

====
